---- MODULE Spec2Model ----
(***************************************************************************)
(* The VDF parser of nu_plugin_vdf (src/src/vdf_value.rs).                 *)
(*                                                                         *)
(* The parser is a set of mutually recursive functions over one shared     *)
(* cursor (a Peekable<Chars>).  It is modelled as a machine with an        *)
(* explicit call stack: every frame holds the locals of one activation,    *)
(* every step is one straight-line piece of one function (up to its next   *)
(* call, loop back-edge or return).  The function parse(input, lossy) is   *)
(* the machine run to completion.                                          *)
(*                                                                         *)
(* A text is a sequence of one-character strings.                          *)
(***************************************************************************)
EXTENDS Integers, Sequences, FiniteSets, TLC

VARIABLES
    input,      \* parse's argument `input`, as a sequence of characters
    lossy,      \* parse's argument `lossy`
    chars,      \* the cursor: index of the character chars.peek() returns
    stack,      \* the call stack, innermost activation last
    ret,        \* per function, the value its last finished call returned
    origin      \* history: what the input text was written from

vars == <<input, lossy, chars, stack, ret, origin>>

(***************************************************************************)
(* Values                                                                  *)
(***************************************************************************)
\* Result and Option
Ok(v) == <<"Ok", v>>
Err(e) == <<"Err", e>>
Some(v) == <<"Some", v>>
None == <<"None">>
Unit == <<"Unit">>
Pending == <<"Pending">>

IsOk(r) == r[1] = "Ok"
IsErr(r) == r[1] = "Err"
IsSome(r) == IsOk(r) /\ r[2][1] = "Some"
Unwrap(r) == r[2][2]

\* enum VdfValue { Table(BTreeMap<String, VdfValue>), Value(String) }
Table(map) == [kind |-> "Table", map |-> map]
Value(s) == [kind |-> "Value", s |-> s]

\* BTreeMap::new() and BTreeMap::insert (an existing key is overwritten)
EmptyMap == <<>>
\* mutant: an existing key keeps its value
Insert_keeps_first(map, k, v) ==
    [q \in (DOMAIN map) \cup {k} |-> IF q \in DOMAIN map THEN map[q] ELSE v]

Insert(map, k, v) == [q \in (DOMAIN map) \cup {k} |-> IF q = k THEN v ELSE map[q]]

\* The error messages
ErrUnclosedString == "Unexpected end of input: unclosed string"
ErrMissingValue == "Unexpected end of input: missing value"
ErrUnexpectedToken == "Unexpected token in table: expected key or '}'"
ErrMissingRootValue == "Unexpected end of input: missing value for root key"
ErrMissingRootKey == "Unexpected end of input: missing root key"

(***************************************************************************)
(* Characters and the cursor                                               *)
(***************************************************************************)
Quote == "\""
Backslash == "\\"
Slash == "/"
LBrace == "{"
RBrace == "}"
EOF == ""

\* char::is_whitespace on the characters the model uses
is_whitespace(c) == c \in {" ", "\t", "\n", "\r", "\f"}

\* chars.peek() with the cursor at p: the character there, EOF past the end
Peek(in, p) == IF p <= Len(in) THEN in[p] ELSE EOF

\* the inner `while` of skip_whitespace that eats whitespace: where it stops
RECURSIVE WhitespaceEnd(_, _)
WhitespaceEnd(in, p) ==
    IF p <= Len(in) /\ is_whitespace(in[p]) THEN WhitespaceEnd(in, p + 1) ELSE p

\* mutant: a comment ends at \n alone
RECURSIVE LineEnd_lf_only(_, _)
LineEnd_lf_only(in, p) ==
    IF p <= Len(in) /\ in[p] # "\n" THEN LineEnd_lf_only(in, p + 1) ELSE p

\* the inner `while` of skip_whitespace that eats a comment's text: where it stops
RECURSIVE LineEnd(_, _)
LineEnd(in, p) ==
    IF p <= Len(in) /\ in[p] # "\n" /\ in[p] # "\r" THEN LineEnd(in, p + 1) ELSE p

(***************************************************************************)
(* The machine                                                             *)
(***************************************************************************)
\* One activation: the function, the place in it, and its locals.  `mark` is
\* a history field: the cursor where the current iteration of the
\* activation's loop began.
Frame(fn, at) ==
    [fn |-> fn, pc |-> "start", key |-> <<>>, table |-> EmptyMap,
     s |-> <<>>, escaped |-> FALSE, mark |-> at]

Machine(in, lo, c, st, r) ==
    [input |-> in, lossy |-> lo, chars |-> c, stack |-> st, ret |-> r]

Top(m) == m.stack[Len(m.stack)]
Running(m) == m.stack # <<>>
At(m, fn, pc) == Running(m) /\ Top(m).fn = fn /\ Top(m).pc = pc

\* a call: the caller resumes at `resume`, the callee starts
Call(m, fn, resume) ==
    [m EXCEPT !.stack = Append([@ EXCEPT ![Len(@)].pc = resume], Frame(fn, m.chars))]

\* a return: the activation ends, its caller sees `v` as the value of the
\* function that returned
Return(m, v) ==
    [m EXCEPT !.stack = SubSeq(@, 1, Len(@) - 1), !.ret[Top(m).fn] = v]

Goto(m, pc) == [m EXCEPT !.stack[Len(m.stack)].pc = pc]
Next1(m) == [m EXCEPT !.chars = @ + 1]      \* chars.next()

With(m, f) == [m EXCEPT !.stack[Len(m.stack)] = f]
\* the loop of the running activation starts a new iteration at the cursor
Again(m) == With(m, [Top(m) EXCEPT !.mark = m.chars])

(***************************************************************************)
(* skip_whitespace: one iteration of its outer loop                        *)
(***************************************************************************)
\* mutant: a slash counts as skipped before the second slash is looked at
skip_whitespace_iter_slash_sticks(m) ==
    LET in == m.input
        p1 == WhitespaceEnd(in, m.chars)
        is_comment == Peek(in, p1) = Slash /\ Peek(in, p1 + 1) = Slash
        p2 == IF is_comment THEN LineEnd(in, p1 + 2) ELSE p1
        skipped_something == p1 > m.chars \/ Peek(in, p1) = Slash
        after == [m EXCEPT !.chars = p2]
    IN  IF skipped_something THEN Again(after) ELSE Return(after, Unit)

skip_whitespace_iter(m) ==
    LET in == m.input
        p1 == WhitespaceEnd(in, m.chars)
        is_comment == Peek(in, p1) = Slash /\ Peek(in, p1 + 1) = Slash
        p2 == IF is_comment THEN LineEnd(in, p1 + 2) ELSE p1
        skipped_something == p1 > m.chars \/ is_comment
        after == [m EXCEPT !.chars = p2]
    IN  IF skipped_something THEN Again(after) ELSE Return(after, Unit)

(***************************************************************************)
(* parse_string                                                            *)
(***************************************************************************)
parse_string_start(m) == Call(m, "skip_whitespace", "open")

\* the opening quote, or no string here
parse_string_open(m) ==
    IF Peek(m.input, m.chars) # Quote
    THEN Return(m, Ok(None))
    ELSE Again(Goto(With(Next1(m), [Top(m) EXCEPT !.s = <<>>, !.escaped = FALSE]), "loop"))

\* mutant: a backslash escapes even when it is itself escaped
parse_string_loop_backslash_unguarded(m) ==
    LET c == Peek(m.input, m.chars)
        f == Top(m)
    IN  IF c = EOF
        THEN Return(m, IF m.lossy THEN Ok(Some(f.s)) ELSE Err(ErrUnclosedString))
        ELSE IF c = Quote /\ ~f.escaped
        THEN Return(Next1(m), Ok(Some(f.s)))
        ELSE IF c = Backslash
        THEN Again(With(Next1(m), [f EXCEPT !.escaped = TRUE]))
        ELSE Again(With(Next1(m), [f EXCEPT !.s = Append(@, c), !.escaped = FALSE]))

\* mutant: at the end of the input lossy gives up the literal read so far
parse_string_loop_lossy_empty(m) ==
    LET c == Peek(m.input, m.chars)
        f == Top(m)
    IN  IF c = EOF
        THEN Return(m, IF m.lossy THEN Ok(Some(<<>>)) ELSE Err(ErrUnclosedString))
        ELSE IF c = Quote /\ ~f.escaped
        THEN Return(Next1(m), Ok(Some(f.s)))
        ELSE IF c = Backslash /\ ~f.escaped
        THEN Again(With(Next1(m), [f EXCEPT !.escaped = TRUE]))
        ELSE Again(With(Next1(m), [f EXCEPT !.s = Append(@, c), !.escaped = FALSE]))

\* one iteration of the `while let`, and what follows the loop at end of input
parse_string_loop(m) ==
    LET c == Peek(m.input, m.chars)
        f == Top(m)
    IN  IF c = EOF
        THEN Return(m, IF m.lossy THEN Ok(Some(f.s)) ELSE Err(ErrUnclosedString))
        ELSE IF c = Quote /\ ~f.escaped
        THEN Return(Next1(m), Ok(Some(f.s)))
        ELSE IF c = Backslash /\ ~f.escaped
        THEN Again(With(Next1(m), [f EXCEPT !.escaped = TRUE]))
        ELSE Again(With(Next1(m), [f EXCEPT !.s = Append(@, c), !.escaped = FALSE]))

(***************************************************************************)
(* parse_value                                                             *)
(***************************************************************************)
parse_value_start(m) == Call(m, "skip_whitespace", "match")

parse_value_match(m) ==
    LET c == Peek(m.input, m.chars)
    IN  IF c = LBrace
        THEN Goto(With(Next1(m), [Top(m) EXCEPT !.table = EmptyMap]), "loop")
        ELSE IF c = Quote
        THEN Call(m, "parse_string", "scalar")
        ELSE Return(m, Ok(None))

\* Some('"') arm: parse_string(chars, lossy).map(|s| s.map(VdfValue::Value))
parse_value_scalar(m) ==
    IF IsSome(m.ret.parse_string) THEN Return(m, Ok(Some(Value(Unwrap(m.ret.parse_string))))) ELSE Return(m, m.ret.parse_string)

\* the head of the table loop
parse_value_loop(m) == Call(Again(m), "skip_whitespace", "brace")

parse_value_brace(m) ==
    IF Peek(m.input, m.chars) = RBrace
    THEN Return(Next1(m), Ok(Some(Table(Top(m).table))))
    ELSE Call(m, "parse_string", "key")

\* mutant: where no key is found the table ends
parse_value_key_ends_table(m) ==
    IF IsErr(m.ret.parse_string) THEN Return(m, m.ret.parse_string)
    ELSE IF IsSome(m.ret.parse_string)
    THEN Call(With(m, [Top(m) EXCEPT !.key = Unwrap(m.ret.parse_string)]), "parse_value", "val")
    ELSE Return(m, Ok(Some(Table(Top(m).table))))

parse_value_key(m) ==
    IF IsErr(m.ret.parse_string) THEN Return(m, m.ret.parse_string)
    ELSE IF IsSome(m.ret.parse_string)
    THEN Call(With(m, [Top(m) EXCEPT !.key = Unwrap(m.ret.parse_string)]), "parse_value", "val")
    ELSE IF Peek(m.input, m.chars) # RBrace
    THEN Return(m, Err(ErrUnexpectedToken))
    ELSE Goto(m, "loop")

\* mutant: a key without a value gets the empty string
parse_value_val_defaults(m) ==
    IF IsErr(m.ret.parse_value) THEN Return(m, m.ret.parse_value)
    ELSE Goto(With(m, [Top(m) EXCEPT !.table =
                Insert(@, Top(m).key, IF IsSome(m.ret.parse_value) THEN Unwrap(m.ret.parse_value) ELSE Value(<<>>))]),
              "loop")

parse_value_val(m) ==
    IF IsErr(m.ret.parse_value) THEN Return(m, m.ret.parse_value)
    ELSE IF IsSome(m.ret.parse_value)
    THEN Goto(With(m, [Top(m) EXCEPT !.table = Insert(@, Top(m).key, Unwrap(m.ret.parse_value))]), "loop")
    ELSE Return(m, Err(ErrMissingValue))

(***************************************************************************)
(* parse                                                                   *)
(***************************************************************************)
parse_start(m) == Call(m, "skip_whitespace", "key")

parse_key(m) == Call(m, "parse_string", "gotkey")

parse_gotkey(m) ==
    IF IsErr(m.ret.parse_string) THEN Return(m, m.ret.parse_string)
    ELSE IF IsSome(m.ret.parse_string)
    THEN Call(With(m, [Top(m) EXCEPT !.key = Unwrap(m.ret.parse_string)]), "parse_value", "gotval")
    ELSE Return(m, Err(ErrMissingRootKey))

\* mutant: the root table is returned without the pair
parse_gotval_no_insert(m) ==
    IF IsErr(m.ret.parse_value) THEN Return(m, m.ret.parse_value)
    ELSE IF IsSome(m.ret.parse_value)
    THEN Return(m, Ok(Table(EmptyMap)))
    ELSE Return(m, Err(ErrMissingRootValue))

\* mutant: lossy also lets a root key go without its value
parse_gotval_lossy_no_value(m) ==
    IF IsErr(m.ret.parse_value) THEN Return(m, m.ret.parse_value)
    ELSE IF IsSome(m.ret.parse_value)
    THEN Return(m, Ok(Table(Insert(EmptyMap, Top(m).key, Unwrap(m.ret.parse_value)))))
    ELSE IF m.lossy
    THEN Return(m, Ok(Table(Insert(EmptyMap, Top(m).key, Value(<<>>)))))
    ELSE Return(m, Err(ErrMissingRootValue))

\* mutant: anything left after the root pair is an error
parse_gotval_rejects_rest(m) ==
    IF IsErr(m.ret.parse_value) THEN Return(m, m.ret.parse_value)
    ELSE IF IsSome(m.ret.parse_value)
    THEN IF WhitespaceEnd(m.input, m.chars) <= Len(m.input)
         THEN Return(m, Err(ErrUnexpectedToken))
         ELSE Return(m, Ok(Table(Insert(EmptyMap, Top(m).key, Unwrap(m.ret.parse_value)))))
    ELSE Return(m, Err(ErrMissingRootValue))

parse_gotval(m) ==
    IF IsErr(m.ret.parse_value) THEN Return(m, m.ret.parse_value)
    ELSE IF IsSome(m.ret.parse_value)
    THEN Return(m, Ok(Table(Insert(EmptyMap, Top(m).key, Unwrap(m.ret.parse_value)))))
    ELSE Return(m, Err(ErrMissingRootValue))

(***************************************************************************)
(* Running the machine                                                     *)
(***************************************************************************)
\* the step the running activation takes
Step(m) ==
    LET fn == Top(m).fn
        pc == Top(m).pc
    IN  CASE fn = "skip_whitespace" -> skip_whitespace_iter(m)
          [] fn = "parse_string" /\ pc = "start" -> parse_string_start(m)
          [] fn = "parse_string" /\ pc = "open" -> parse_string_open(m)
          [] fn = "parse_string" /\ pc = "loop" -> parse_string_loop(m)
          [] fn = "parse_value" /\ pc = "start" -> parse_value_start(m)
          [] fn = "parse_value" /\ pc = "match" -> parse_value_match(m)
          [] fn = "parse_value" /\ pc = "scalar" -> parse_value_scalar(m)
          [] fn = "parse_value" /\ pc = "loop" -> parse_value_loop(m)
          [] fn = "parse_value" /\ pc = "brace" -> parse_value_brace(m)
          [] fn = "parse_value" /\ pc = "key" -> parse_value_key(m)
          [] fn = "parse_value" /\ pc = "val" -> parse_value_val(m)
          [] fn = "parse" /\ pc = "start" -> parse_start(m)
          [] fn = "parse" /\ pc = "key" -> parse_key(m)
          [] fn = "parse" /\ pc = "gotkey" -> parse_gotkey(m)
          [] fn = "parse" /\ pc = "gotval" -> parse_gotval(m)

RECURSIVE Run(_)
Run(m) == IF Running(m) THEN Run(Step(m)) ELSE m

\* the state in which parse(input, lossy) is entered
NoReturns ==
    [skip_whitespace |-> Pending, parse_string |-> Pending,
     parse_value |-> Pending, parse |-> Pending]
Entry(in, lo) == Machine(in, lo, 1, <<Frame("parse", 1)>>, NoReturns)

\* pub fn parse(input: &str, lossy: bool) -> Result<VdfValue, String>
parse(in, lo) == Run(Entry(in, lo)).ret.parse

(***************************************************************************)
(* Inputs                                                                  *)
(***************************************************************************)
MaxLen == 4

Alphabet == {Quote, Backslash, Slash, LBrace, RBrace, " ", "\n", "a"}

RECURSIVE Texts(_, _)
Texts(A, n) ==
    IF n = 0 THEN {<<>>}
    ELSE LET shorter == Texts(A, n - 1)
         IN  shorter \cup {Append(t, c) : t \in {u \in shorter : Len(u) = n - 1}, c \in A}

(***************************************************************************)
(* The parser, step by step                                                *)
(***************************************************************************)
M == Machine(input, lossy, chars, stack, ret)

Become(n) ==
    /\ chars' = n.chars
    /\ stack' = n.stack
    /\ ret' = n.ret
    /\ UNCHANGED <<input, lossy, origin>>

\* parse is about to be called on the text `in`, written from `o`
Entered(in, o) ==
    /\ input = in
    /\ origin = o
    /\ lossy \in BOOLEAN
    /\ chars = 1
    /\ stack = <<Frame("parse", 1)>>
    /\ ret = NoReturns

Done == stack = <<>>
\* what parse returned
result == ret.parse

(***************************************************************************)
(* The parser as one call: parse runs from entry to its return             *)
(***************************************************************************)
Parse == At(M, "parse", "start") /\ Become(Run(M))

(***************************************************************************)
(* Writing VDF text                                                        *)
(***************************************************************************)
RECURSIVE Escaped(_)
Escaped(w) ==
    IF w = <<>> THEN <<>>
    ELSE (IF Head(w) \in {Quote, Backslash} THEN <<Backslash, Head(w)>> ELSE <<Head(w)>>)
         \o Escaped(Tail(w))

Quoted(w) == <<Quote>> \o Escaped(w) \o <<Quote>>

\* "k" "v"
Pair(k, v) == Quoted(k) \o <<" ">> \o Quoted(v)

\* the Table of one entry
OneEntry(k, v) == Table([q \in {k} |-> v])

\* all sequences over S of length at most n
SeqsUpTo(S, n) == UNION {[1..i -> S] : i \in 0..n}

(***************************************************************************)
(* C1: flat sequences of pairs                                             *)
(***************************************************************************)
MaxPairs == 3
PairKeys == {<<"a">>, <<"b">>}
PairVals == {<<"x">>, <<"y", "z">>}
PairSeqs == SeqsUpTo(PairKeys \X PairVals, MaxPairs)

\* "k1" "v1" "k2" "v2" ...
RECURSIVE FlatText(_)
FlatText(ps) ==
    IF ps = <<>> THEN <<>>
    ELSE Quoted(ps[1][1]) \o <<" ">> \o Quoted(ps[1][2])
         \o (IF Len(ps) > 1 THEN <<" ">> ELSE <<>>) \o FlatText(Tail(ps))

\* one entry per distinct key, the value of its last occurrence
LastWins(ps) ==
    [k \in {ps[i][1] : i \in 1..Len(ps)} |->
        LET last == CHOOSE i \in 1..Len(ps) :
                        ps[i][1] = k /\ \A j \in (i + 1)..Len(ps) : ps[j][1] # k
        IN  Value(ps[last][2])]

InitPairs == \E ps \in PairSeqs : Entered(FlatText(ps), <<"pairs", ps>>)
SpecPairs == InitPairs /\ [][Parse]_vars

\* C1 as claimed: a flat sequence of n >= 0 pairs parses, under both values
\* of lossy, to the root Table of all its pairs, last occurrence winning;
\* n = 0 gives the empty Table.
C1_AllPairsAccumulated ==
    Done => result = Ok(Table(LastWins(origin[2])))

\* C1 as amended: a flat sequence of n >= 1 pairs parses, under both values
\* of lossy, to the root Table holding the first pair alone; n = 0 fails
\* with the missing-root-key error.
C1_FirstPairOnly ==
    Done => result = IF origin[2] = <<>>
                  THEN Err(ErrMissingRootKey)
                  ELSE Ok(Table(Insert(EmptyMap, origin[2][1][1], Value(origin[2][1][2]))))

\* parse has returned a tree on a sequence of pairs with two distinct keys
C1_Witness ==
    /\ Done
    /\ Len(origin[2]) >= 2
    /\ origin[2][1][1] # origin[2][2][1]
    /\ IsOk(result)

(***************************************************************************)
(* C2: a root key and nested brace blocks                                  *)
(***************************************************************************)
\* A block is a sequence of entries; an entry is <<"s", key, word>> (a quoted
\* value) or <<"t", key, block>> (a nested block).
MaxEntries == 3
RootKey == <<"r">>
DocKeys == {<<"a">>, <<"b">>}
DocVals == {<<"}">>}

\* the blocks of exactly n entries, nested ones counted
RECURSIVE BlocksOf(_), EntriesOf(_)
BlocksOf(n) ==
    IF n = 0 THEN {<<>>}
    ELSE UNION {{<<e>> \o rest : e \in EntriesOf(j), rest \in BlocksOf(n - j)} : j \in 1..n}
EntriesOf(j) ==
    (IF j = 1 THEN {<<"s", k, w>> : k \in DocKeys, w \in DocVals} ELSE {})
    \cup {<<"t", k, b>> : k \in DocKeys, b \in BlocksOf(j - 1)}

Blocks == UNION {BlocksOf(n) : n \in 0..MaxEntries}

\* { "k" value "k" value ... }
RECURSIVE BlockText(_), EntriesText(_)
BlockText(b) == <<LBrace>> \o EntriesText(b) \o <<"\n", RBrace>>
EntriesText(b) ==
    IF b = <<>> THEN <<>>
    ELSE <<"\n">> \o Quoted(b[1][2]) \o <<" ">>
         \o (IF b[1][1] = "s" THEN Quoted(b[1][3]) ELSE BlockText(b[1][3]))
         \o EntriesText(Tail(b))

DocText(b) == Quoted(RootKey) \o <<"\n">> \o BlockText(b)

\* the tree a block stands for: its own keys, each with its last value
RECURSIVE TreeOf(_)
TreeOf(b) ==
    Table([k \in {b[i][2] : i \in 1..Len(b)} |->
        LET last == CHOOSE i \in 1..Len(b) :
                        b[i][2] = k /\ \A j \in (i + 1)..Len(b) : b[j][2] # k
        IN  IF b[last][1] = "s" THEN Value(b[last][3]) ELSE TreeOf(b[last][3])])

RECURSIVE NoRepeats(_)
NoRepeats(b) ==
    /\ \A i, j \in 1..Len(b) : b[i][2] = b[j][2] => i = j
    /\ \A i \in 1..Len(b) : b[i][1] = "t" => NoRepeats(b[i][3])

Max(S) == CHOOSE x \in S : \A y \in S : y <= x

\* how many Tables deep a tree goes (a Scalar: 0, an empty Table: 1)
RECURSIVE TreeDepth(_)
TreeDepth(v) ==
    IF v.kind = "Value" THEN 0
    ELSE 1 + Max({0} \cup {TreeDepth(v.map[k]) : k \in DOMAIN v.map})

\* how many braces deep a text goes, braces inside quoted strings not counted
RECURSIVE BraceScan(_, _, _, _, _)
BraceScan(in, p, mode, open, deepest) ==
    IF p > Len(in) THEN deepest
    ELSE LET c == in[p]
         IN  IF mode = "escaped" THEN BraceScan(in, p + 1, "string", open, deepest)
             ELSE IF mode = "string"
             THEN BraceScan(in, p + 1,
                            IF c = Quote THEN "out" ELSE IF c = Backslash THEN "escaped" ELSE "string",
                            open, deepest)
             ELSE IF c = Quote THEN BraceScan(in, p + 1, "string", open, deepest)
             ELSE IF c = LBrace
             THEN BraceScan(in, p + 1, "out", open + 1, Max({deepest, open + 1}))
             ELSE IF c = RBrace THEN BraceScan(in, p + 1, "out", open - 1, deepest)
             ELSE BraceScan(in, p + 1, "out", open, deepest)
BraceDepth(in) == BraceScan(in, 1, "out", 0, 0)

InitDocs == \E b \in Blocks : Entered(DocText(b), <<"doc", b>>)
SpecDocs == InitDocs /\ [][Parse]_vars

\* the Table parsed for the root key's block
RootTree == result[2].map[RootKey]

\* C2 as claimed: "root" { ... } parses to Table{root: T}, T mirroring the
\* block (a Table per block with exactly the block's own keys, a Scalar per
\* quoted value, the last occurrence of a repeated key kept), and T is as
\* many Tables deep as the input's braces are nested.
C2_DepthEqualsBraceDepth ==
    Done => /\ result = Ok(Table([k \in {RootKey} |-> TreeOf(origin[2])]))
            /\ TreeDepth(RootTree) = BraceDepth(input)

\* C2 as amended: the same tree, and T is never deeper than the input's
\* braces are nested, and exactly as deep when no block repeats a key.
C2_TreeMirrorsBlocks ==
    Done => /\ result = Ok(Table([k \in {RootKey} |-> TreeOf(origin[2])]))
            /\ TreeDepth(RootTree) <= BraceDepth(input)
            /\ NoRepeats(origin[2]) => TreeDepth(RootTree) = BraceDepth(input)

\* a tree two Tables deep was parsed from a block that repeats a key
C2_Witness ==
    /\ Done
    /\ IsOk(result)
    /\ ~NoRepeats(origin[2])
    /\ TreeDepth(RootTree) = 2

(***************************************************************************)
(* C3, C6: arbitrary texts made of tokens                                  *)
(***************************************************************************)
MaxTokens == 4
Tokens ==
    {Quoted(<<Slash, Slash>>), <<Quote>>, <<Backslash>>, <<Slash, Slash>>, <<Slash>>,
     <<"\n">>, <<"\r">>, <<" ">>, <<LBrace>>, <<RBrace>>}

RECURSIVE Flatten(_)
Flatten(ts) == IF ts = <<>> THEN <<>> ELSE Head(ts) \o Flatten(Tail(ts))

TokenTexts == {Flatten(ts) : ts \in SeqsUpTo(Tokens, MaxTokens)}

InitTokens == \E t \in TokenTexts : Entered(t, <<"text">>)
SpecTokens == InitTokens /\ [][Parse]_vars

\* where the comment whose text starts at p ends: at the next \n or \r, or
\* at the end of the text
CommentEnd(in, p) ==
    CHOOSE q \in p..(Len(in) + 1) :
        /\ q = Len(in) + 1 \/ in[q] \in {"\n", "\r"}
        /\ \A r \in p..(q - 1) : in[r] \notin {"\n", "\r"}

\* the text without its comments: every // outside a quoted string is
\* deleted up to its end; the text of quoted strings is kept as it is
RECURSIVE Uncommented(_, _, _)
Uncommented(in, p, mode) ==
    IF p > Len(in) THEN <<>>
    ELSE LET c == in[p]
         IN  IF mode = "escaped" THEN <<c>> \o Uncommented(in, p + 1, "string")
             ELSE IF mode = "string"
             THEN <<c>> \o Uncommented(in, p + 1,
                              IF c = Quote THEN "out"
                              ELSE IF c = Backslash THEN "escaped" ELSE "string")
             ELSE IF c = Slash /\ Peek(in, p + 1) = Slash
             THEN Uncommented(in, CommentEnd(in, p + 2), "out")
             ELSE <<c>> \o Uncommented(in, p + 1, IF c = Quote THEN "string" ELSE "out")

StripComments(in) == Uncommented(in, 1, "out")

\* the text begins with the pair "//" "//"
SlashPairFirst ==
    \E n \in 0..Len(input) :
        SubSeq(input, 1, n) = Pair(<<Slash, Slash>>, <<Slash, Slash>>)

\* C3: deleting every comment that starts outside a quoted string leaves a
\* text on which parse returns the same result, tree or error; a // inside
\* a quoted string is part of the key or of the scalar.
C3_CommentsDoNotMatter ==
    Done =>
        /\ result = parse(StripComments(input), lossy)
        /\ SlashPairFirst
           => result = Ok(OneEntry(<<Slash, Slash>>, Value(<<Slash, Slash>>)))

\* parse returned a tree with // as key and as scalar, on a text that has
\* a comment to delete
C3_Witness ==
    /\ Done
    /\ IsOk(result)
    /\ StripComments(input) # input
    /\ SlashPairFirst

\* C6: the two settings of lossy return the same result on every text,
\* unless lossy = false returns the unclosed-string error.
C6_LossyOnlyForUnclosedString ==
    Done => \/ result = parse(input, ~lossy)
            \/ parse(input, FALSE) = Err(ErrUnclosedString)

\* lossy = true returned a tree where lossy = false returns the error
C6_Witness ==
    /\ Done
    /\ lossy
    /\ IsOk(result)
    /\ parse(input, FALSE) = Err(ErrUnclosedString)

(***************************************************************************)
(* C7, C4: the text between the quotes                                     *)
(***************************************************************************)
MaxBody == 6
BodyAlphabet == {Backslash, Quote, "n"}
Bodies == Texts(BodyAlphabet, MaxBody)

\* how many backslashes stand in a row right before u[i]
RunBefore(u, i) ==
    Max({n \in 0..(i - 1) : \A j \in (i - n)..(i - 1) : u[j] = Backslash})

\* u[i] is a backslash that escapes the character after it
Escapes(u, i) == u[i] = Backslash /\ RunBefore(u, i) % 2 = 0

\* the quotes of u that no backslash escapes
Closers(u) == {i \in 1..Len(u) : u[i] = Quote /\ RunBefore(u, i) % 2 = 0}
Min(S) == CHOOSE x \in S : \A y \in S : x <= y

\* u without its escaping backslashes, every other character as it is
RECURSIVE LiteralFrom(_, _)
LiteralFrom(u, i) ==
    IF i > Len(u) THEN <<>>
    ELSE (IF Escapes(u, i) THEN <<>> ELSE <<u[i]>>) \o LiteralFrom(u, i + 1)
Literal(u) == LiteralFrom(u, 1)

StringKey == <<"K">>
StringVal == <<"V">>

\* the body as the root value: "K" "<body>"  (the last quote closes the
\* string unless the body closes it earlier or escapes it)
ValueText(body) == Quoted(StringKey) \o <<" ", Quote>> \o body \o <<Quote>>
\* the body as the root key: "<body>" "V", for a body the last quote closes
KeyText(body) == <<Quote>> \o body \o <<Quote, " ">> \o Quoted(StringVal)

InitStrings ==
    \/ \E body \in Bodies : Entered(ValueText(body), <<"string", "value", body>>)
    \/ \E body \in {b \in Bodies : Closers(b \o <<Quote>>) = {Len(b) + 1}} :
           Entered(KeyText(body), <<"string", "key", body>>)
SpecStrings == InitStrings /\ [][Parse]_vars

\* C7: between the quotes a backslash is dropped and the character after
\* it, whatever it is, is taken as it stands; the first quote no backslash
\* escapes closes the string.
C7_BackslashTakesNextLiterally ==
    Done =>
        LET u == origin[3] \o <<Quote>>
        IN  IF origin[2] = "key"
            THEN result = Ok(OneEntry(Literal(origin[3]), Value(StringVal)))
            ELSE IF Closers(u) # {}
            THEN result = Ok(OneEntry(StringKey, Value(Literal(SubSeq(u, 1, Min(Closers(u)) - 1)))))
            ELSE result = IF lossy THEN Ok(OneEntry(StringKey, Value(Literal(u))))
                       ELSE Err(ErrUnclosedString)

\* a value was parsed from a body with an escaped quote, an escaped
\* backslash and an escaped letter
C7_Witness ==
    /\ Done
    /\ origin[2] = "value"
    /\ \E i, j, k \in 1..(Len(origin[3]) - 1) :
           /\ Escapes(origin[3], i) /\ origin[3][i + 1] = Quote
           /\ Escapes(origin[3], j) /\ origin[3][j + 1] = Backslash
           /\ Escapes(origin[3], k) /\ origin[3][k + 1] = "n"
    /\ IsOk(result)

\* the bodies that leave their string open at the end of the text
OpenBodies == {b \in Bodies : Closers(b) = {}}

UnclosedText(place, body) ==
    CASE place = "root key" -> <<Quote>> \o body
      [] place = "root value" -> Quoted(StringKey) \o <<" ", Quote>> \o body
      [] place = "table key" -> Quoted(StringKey) \o <<" ", LBrace, " ", Quote>> \o body
      [] place = "table value" ->
            Quoted(StringKey) \o <<" ", LBrace, " ">> \o Quoted(<<"a">>) \o <<" ", Quote>> \o body

UnclosedPlaces == {"root key", "root value", "table key", "table value"}

InitUnclosed ==
    \E place \in UnclosedPlaces, body \in OpenBodies :
        Entered(UnclosedText(place, body), <<"unclosed", place, body>>)
SpecUnclosed == InitUnclosed /\ [][Parse]_vars

\* C4: a text that ends inside a quoted string fails with the
\* unclosed-string error when lossy = false; when lossy = true the string
\* is lexed as the literal read so far: "K" "V gives Table{K: V}, and an
\* unclosed key is a key, so that parse goes on to miss its value (or,
\* after an unclosed value in a table, the closing brace).
C4_UnclosedString ==
    Done =>
        IF ~lossy THEN result = Err(ErrUnclosedString)
        ELSE CASE origin[2] = "root key" -> result = Err(ErrMissingRootValue)
               [] origin[2] = "root value" ->
                     result = Ok(OneEntry(StringKey, Value(Literal(origin[3]))))
               [] origin[2] = "table key" -> result = Err(ErrMissingValue)
               [] origin[2] = "table value" -> result = Err(ErrUnexpectedToken)

\* lossy = true gave the root value read so far, escapes resolved
C4_Witness ==
    /\ Done
    /\ lossy
    /\ origin[2] = "root value"
    /\ Len(origin[3]) > Len(Literal(origin[3]))
    /\ Literal(origin[3]) # <<>>
    /\ IsOk(result)

(***************************************************************************)
(* C5, C8, C9: what follows a key, a table's entries, a complete text      *)
(***************************************************************************)
MaxTail == 3
TailTokens ==
    {<<"\n">>, <<Slash, Slash, "c", "\n">>, <<Slash>>, <<"x">>,
     <<LBrace>>, <<RBrace>>, <<Quote>>}
Tails == {Flatten(ts) : ts \in SeqsUpTo(TailTokens, MaxTail)}

\* the first character of t that is neither whitespace nor part of a
\* comment; EOF when there is none
FirstSignificant(t) ==
    LET u == StripComments(t)
        at == {i \in 1..Len(u) : ~is_whitespace(u[i])}
    IN  IF at = {} THEN EOF ELSE u[Min(at)]

\* a key in key position, its value still to come
KeyAtText(place) ==
    CASE place = "first" -> Quoted(<<"k">>)
      [] place = "later" -> Pair(<<"a">>, <<"b">>) \o <<" ">> \o Quoted(<<"k">>)
      [] place = "table" -> Quoted(RootKey) \o <<" ", LBrace, " ">> \o Quoted(<<"k">>)
      [] place = "table later" ->
            Quoted(RootKey) \o <<" ", LBrace, " ">> \o Pair(<<"a">>, <<"b">>)
            \o <<" ">> \o Quoted(<<"k">>)
      [] place = "inner table" ->
            Quoted(RootKey) \o <<" ", LBrace, " ">> \o Quoted(<<"a">>)
            \o <<" ", LBrace, " ">> \o Quoted(<<"k">>)

KeyPlaces == {"first", "later", "table", "table later", "inner table"}

InitNoValue ==
    \E place \in KeyPlaces, tail \in {t \in Tails : FirstSignificant(t) \notin {Quote, LBrace}} :
        Entered(KeyAtText(place) \o tail, <<"no value", place, tail>>)
SpecNoValue == InitNoValue /\ [][Parse]_vars

\* C5 as claimed: a key in key position (first at the top level, later at
\* the top level, or in a table) followed by neither a quote nor an opening
\* brace makes parse fail, whatever lossy is.
C5_KeyWithoutValueFails ==
    Done => IsErr(result)

\* C5 as amended: such a key makes parse fail with a missing-value error
\* when it is the first top-level key or a key in a table; a later top-level
\* key is not read, and parse returns the tree of the first pair.
C5_FirstOrTableKeyWithoutValueFails ==
    Done => CASE origin[2] = "first" -> result = Err(ErrMissingRootValue)
              [] origin[2] = "later" -> result = Ok(OneEntry(<<"a">>, Value(<<"b">>)))
              [] OTHER -> result = Err(ErrMissingValue)

\* lossy parse failed on a table key that a closing brace follows
C5_Witness ==
    /\ Done
    /\ lossy
    /\ origin[2] = "table later"
    /\ FirstSignificant(origin[3]) = RBrace
    /\ IsErr(result)

\* an open table, a key expected next
TableText(place) ==
    CASE place = "empty" -> Quoted(RootKey) \o <<" ", LBrace>>
      [] place = "after pair" -> Quoted(RootKey) \o <<" ", LBrace, " ">> \o Pair(<<"a">>, <<"b">>)
      [] place = "inner" -> Quoted(RootKey) \o <<" ", LBrace, " ">> \o Quoted(<<"a">>) \o <<" ", LBrace>>
      [] place = "after inner" ->
            Quoted(RootKey) \o <<" ", LBrace, " ">> \o Quoted(<<"a">>) \o <<" ", LBrace, RBrace>>

TablePlaces == {"empty", "after pair", "inner", "after inner"}

InitBadToken ==
    \E place \in TablePlaces, tail \in {t \in Tails : FirstSignificant(t) \notin {Quote, RBrace}} :
        Entered(TableText(place) \o tail, <<"bad token", place, tail>>)
SpecBadToken == InitBadToken /\ [][Parse]_vars

\* C8: in a table, where a key or the closing brace is expected, a next
\* significant character that is neither a quote nor a closing brace (the
\* end of the input included) makes parse fail with the unexpected-token
\* error, whatever lossy is.
C8_UnexpectedTokenInTable ==
    Done => result = Err(ErrUnexpectedToken)

\* parse failed at a lone slash that follows a comment, after a pair
C8_Witness ==
    /\ Done
    /\ origin[2] = "after pair"
    /\ FirstSignificant(origin[3]) = Slash
    /\ StripComments(origin[3]) # origin[3]
    /\ IsErr(result)

\* complete texts: one or two pairs, or a root key with a small block
CompleteTexts ==
    {FlatText(ps) : ps \in {q \in PairSeqs : Len(q) \in 1..2}}
    \cup {DocText(b) : b \in BlocksOf(0) \cup BlocksOf(1)}

InitGarbage ==
    \E base \in CompleteTexts, tail \in {t \in Tails : FirstSignificant(t) # Quote} :
        Entered(base \o <<" ">> \o tail, <<"garbage", base, tail>>)
SpecGarbage == InitGarbage /\ [][Parse]_vars

\* C9: a complete text followed by whitespace and anything whose first
\* significant character is not a quote parses to the tree of the complete
\* text alone.
C9_TrailingGarbageIgnored ==
    Done => IsOk(result) /\ result = parse(origin[2], lossy)

\* a tree was returned although a closing brace and a quote follow the text
C9_Witness ==
    /\ Done
    /\ IsOk(result)
    /\ FirstSignificant(origin[3]) = RBrace
    /\ \E i \in 1..Len(origin[3]) : origin[3][i] = Quote

(***************************************************************************)
(* The parser, step by step, on every short text and on small documents    *)
(***************************************************************************)
StepTexts ==
    Texts(Alphabet, MaxLen) \cup {DocText(b) : b \in BlocksOf(0) \cup BlocksOf(1) \cup BlocksOf(2)}

Init == \E t \in StepTexts : Entered(t, <<"text">>)

SkipWhitespaceIter == At(M, "skip_whitespace", "start") /\ Become(skip_whitespace_iter(M))
ParseStringStart == At(M, "parse_string", "start") /\ Become(parse_string_start(M))
ParseStringOpen == At(M, "parse_string", "open") /\ Become(parse_string_open(M))
ParseStringLoop == At(M, "parse_string", "loop") /\ Become(parse_string_loop(M))
ParseValueStart == At(M, "parse_value", "start") /\ Become(parse_value_start(M))
ParseValueMatch == At(M, "parse_value", "match") /\ Become(parse_value_match(M))
ParseValueScalar == At(M, "parse_value", "scalar") /\ Become(parse_value_scalar(M))
ParseValueLoop == At(M, "parse_value", "loop") /\ Become(parse_value_loop(M))
ParseValueBrace == At(M, "parse_value", "brace") /\ Become(parse_value_brace(M))
ParseValueKey == At(M, "parse_value", "key") /\ Become(parse_value_key(M))
ParseValueVal == At(M, "parse_value", "val") /\ Become(parse_value_val(M))
ParseStart == At(M, "parse", "start") /\ Become(parse_start(M))
ParseKey == At(M, "parse", "key") /\ Become(parse_key(M))
ParseGotKey == At(M, "parse", "gotkey") /\ Become(parse_gotkey(M))
ParseGotVal == At(M, "parse", "gotval") /\ Become(parse_gotval(M))

Next ==
    \/ SkipWhitespaceIter
    \/ ParseStringStart
    \/ ParseStringOpen
    \/ ParseStringLoop
    \/ ParseValueStart
    \/ ParseValueMatch
    \/ ParseValueScalar
    \/ ParseValueLoop
    \/ ParseValueBrace
    \/ ParseValueKey
    \/ ParseValueVal
    \/ ParseStart
    \/ ParseKey
    \/ ParseGotKey
    \/ ParseGotVal

Spec == Init /\ [][Next]_vars

\* the two views of the parser agree: the steps end with what parse returns
StepAgreesWithRun == Done => result = parse(input, lossy)

(***************************************************************************)
(* C10: termination                                                        *)
(***************************************************************************)
\* parse is an ordinary sequential call: while it has not returned, it runs
FairSpec == Spec /\ WF_vars(Next)

\* the activation is at the head of its loop / somewhere in its loop
LoopHead(f) ==
    \/ f.fn = "skip_whitespace"
    \/ f.fn = "parse_string" /\ f.pc = "loop"
    \/ f.fn = "parse_value" /\ f.pc = "loop"
InLoop(f) ==
    \/ LoopHead(f)
    \/ f.fn = "parse_value" /\ f.pc \in {"brace", "key", "val"}

\* the running activation goes round its loop once more
BackEdge ==
    /\ Running(M)
    /\ Len(stack') = Len(stack)
    /\ InLoop(Top(M))
    /\ LoopHead(stack'[Len(stack')])

\* C10: the cursor never moves backwards; a loop of the skipper, of the
\* string lexer or of the table parser that goes round once more has moved
\* the cursor past where the iteration began; and parse returns, with a
\* tree or with an error.
C10_Terminates ==
    /\ [][chars' >= chars /\ (BackEdge => chars' > Top(M).mark)]_vars
    /\ <>[](Done /\ (IsOk(result) \/ IsErr(result)))

\* parse has stopped with an error at a lone slash inside a table
C10_Witness ==
    /\ Done
    /\ result = Err(ErrUnexpectedToken)
    /\ Peek(input, chars) = Slash
    /\ Peek(input, chars + 1) # Slash

====
